---------------------------- MODULE Spec2Model ----------------------------
(***************************************************************************)
(* A model of src/main.py: the two interactive pipelines search() and      *)
(* extract(), the summarizer client query_huggingface(), and the two       *)
(* agent classes ResearchAgent and AnswerDraftingAgent.                    *)
(*                                                                         *)
(* Text is a sequence of one-character strings, so that len(), slicing     *)
(* and concatenation are the sequence operations.  A decoded JSON value or *)
(* an opaque tool result is a record [type, text, items]:                  *)
(*   type "str"  : text holds the characters                               *)
(*   type "lit"  : a non-string scalar (True, None, a number), text is its *)
(*                 rendering                                               *)
(*   type "dict" : items is the sequence of [key, val] in insertion order  *)
(*   type "list" : items is the sequence of element values                 *)
(***************************************************************************)
EXTENDS Integers, Sequences, FiniteSets, TLC

VARIABLES
    pc,              \* position of the running operation
    mode,            \* "none", "search", "extract", "draft" or "gather"
    user_input,      \* the query / URL text of the running operation
    search_results,  \* the raw result of the collection call (search/extract)
    search_memory,   \* search_memory.chat_memory.messages
    extract_memory,  \* extract_memory.chat_memory.messages
    combined_info,   \* the prompt sent as payload["inputs"]
    hf_result,       \* the decoded reply of the summarization endpoint
    answer,          \* what the operation gave its caller: a value or a raised fault
    inflight,        \* the external calls awaiting their reply
    urls,            \* gather_information's urls argument
    research_data,   \* the results dict of gather_information / draft_answer
    calls,           \* the tool calls gather_information has issued, in order
    turns,           \* history: the (mode, input, raw result) of every run whose collection returned
    runs             \* the number of operations started

vars == <<pc, mode, user_input, search_results, search_memory, extract_memory,
          combined_info, hf_result, answer, inflight, urls, research_data,
          calls, turns, runs>>

-----------------------------------------------------------------------------
(* Bounds of the model *)

MaxRuns == 2

MaxUrls == 2

(* len(combined_info) > 1000, combined_info[:1000] *)
MAX_LENGTH == 1000

-----------------------------------------------------------------------------
(* String literals of the source *)

QUERY_PREFIX == <<"Q","u","e","r","y",":"," ">>
RESEARCH_FINDINGS == <<"\n","\n","R","e","s","e","a","r","c","h"," ","F","i","n","d","i","n","g","s",":","\n">>
EXTRACTED_INFORMATION == <<"\n","\n","E","x","t","r","a","c","t","e","d"," ","I","n","f","o","r","m","a","t","i","o","n",":","\n">>
PREVIOUS_CONTEXT == <<"\n","\n","P","r","e","v","i","o","u","s"," ","C","o","n","t","e","x","t",":","\n">>
SOURCES_HEADER == <<"\n","S","o","u","r","c","e","s",":","\n">>
ELLIPSIS == <<".",".",".">>
FALLBACK == <<"S","o","r","r","y",","," ","t","h","e","r","e"," ","w","a","s"," ","a","n"," ","e","r","r","o","r"," ","p","r","o","c","e","s","s","i","n","g"," ","t","h","e"," ","c","o","n","t","e","n","t","."," ","P","l","e","a","s","e"," ","t","r","y"," ","a","g","a","i","n"," ","w","i","t","h"," ","a"," ","d","i","f","f","e","r","e","n","t"," ","i","n","p","u","t",".">>
HUMAN_OPEN == <<"H","u","m","a","n","M","e","s","s","a","g","e","(","c","o","n","t","e","n","t","=">>
AI_OPEN == <<"A","I","M","e","s","s","a","g","e","(","c","o","n","t","e","n","t","=">>
MSG_CLOSE == <<","," ","a","d","d","i","t","i","o","n","a","l","_","k","w","a","r","g","s","=","{","}",","," ","r","e","s","p","o","n","s","e","_","m","e","t","a","d","a","t","a","=","{","}",")">>
K_SUMMARY == <<"s","u","m","m","a","r","y","_","t","e","x","t">>
K_ERROR == <<"e","r","r","o","r">>
K_WARNINGS == <<"w","a","r","n","i","n","g","s">>
K_UNEXPECTED == <<"u","n","e","x","p","e","c","t","e","d">>
K_RESULTS == <<"r","e","s","u","l","t","s">>
T_RATE == <<"r","a","t","e"," ","l","i","m","i","t","e","d">>
T_SLOW == <<"s","l","o","w"," ","d","o","w","n">>
T_TRUE == <<"T","r","u","e">>
U1 == <<"h","t","t","p",":","/","/","a">>
U2 == <<"h","t","t","p","s",":","/","/","b">>

-----------------------------------------------------------------------------
(* Values *)

Str(t) == [type |-> "str", text |-> t, items |-> <<>>]

Lit(t) == [type |-> "lit", text |-> t, items |-> <<>>]

Dict(kvs) == [type |-> "dict", text |-> <<>>, items |-> kvs]

List(xs) == [type |-> "list", text |-> <<>>, items |-> xs]

KV(k, v) == [key |-> k, val |-> v]

None == Lit(<<"N","o","n","e">>)

HasKey(d, k) == \E i \in 1..Len(d.items) : d.items[i].key = k

(* d[k] for a key the dict holds *)
GetItem(d, k) == d.items[CHOOSE i \in 1..Len(d.items) : d.items[i].key = k].val

Chars(t) == {t[i] : i \in 1..Len(t)}

RECURSIVE Escape(_, _)
(* the body of repr(str): backslash, newline and the delimiting quote escaped *)
Escape(t, q) ==
    IF Chars(t) \cap {"\\", "\n", q} = {} THEN t
    ELSE LET c == Head(t)
             e == IF c = "\\" THEN <<"\\", "\\">>
                  ELSE IF c = "\n" THEN <<"\\", "n">>
                  ELSE IF c = q THEN <<"\\", q>>
                  ELSE <<c>>
         IN  e \o Escape(Tail(t), q)

(* repr() of a str: double quotes when the text holds ' and no ", else single quotes *)
ReprStr(t) ==
    LET q == IF "'" \in Chars(t) /\ "\"" \notin Chars(t) THEN "\"" ELSE "'"
    IN  <<q>> \o Escape(t, q) \o <<q>>

RECURSIVE Repr(_)
RECURSIVE JoinRepr(_, _)
(* the elements of a list or the key: value pairs of a dict, joined by ", " *)
JoinRepr(xs, isDict) ==
    IF xs = <<>> THEN <<>>
    ELSE LET one == IF isDict
                    THEN ReprStr(Head(xs).key) \o <<":", " ">> \o Repr(Head(xs).val)
                    ELSE Repr(Head(xs))
         IN  IF Len(xs) = 1 THEN one
             ELSE one \o <<",", " ">> \o JoinRepr(Tail(xs), isDict)

(* repr() of a value *)
Repr(v) ==
    CASE v.type = "str"  -> ReprStr(v.text)
      [] v.type = "lit"  -> v.text
      [] v.type = "dict" -> <<"{">> \o JoinRepr(v.items, TRUE) \o <<"}">>
      [] v.type = "list" -> <<"[">> \o JoinRepr(v.items, FALSE) \o <<"]">>

(* str() of a value: a str is itself, everything else is its repr *)
StrOf(v) == IF v.type = "str" THEN v.text ELSE Repr(v)

-----------------------------------------------------------------------------
(* Outcomes of an operation *)

NoValue == [type |-> "none", text |-> <<>>, items |-> <<>>]

Return(v) == [kind |-> "return", val |-> v, exc |-> ""]

Raise(e) == [kind |-> "raise", val |-> NoValue, exc |-> e]

NoAnswer == [kind |-> "none", val |-> NoValue, exc |-> ""]

-----------------------------------------------------------------------------
(* Conversation memory (ConversationBufferMemory) *)

HumanMessage(t) == [role |-> "human", content |-> t]

AIMessage(t) == [role |-> "ai", content |-> t]

(* a save that keeps the output and loses the input *)
save_context_output_only(messages, i, o) == messages \o <<AIMessage(o)>>

(* save_context({"input": i}, {"output": o}): one turn is a human and an ai message *)
save_context(messages, i, o) == messages \o <<HumanMessage(i), AIMessage(o)>>

(* messages[-2:] *)
LastTwo(messages) ==
    IF Len(messages) <= 2 THEN messages
    ELSE SubSeq(messages, Len(messages) - 1, Len(messages))

ReprMessage(m) ==
    (IF m.role = "human" THEN HUMAN_OPEN ELSE AI_OPEN) \o ReprStr(m.content) \o MSG_CLOSE

RECURSIVE JoinMessages(_)
JoinMessages(ms) ==
    IF ms = <<>> THEN <<>>
    ELSE IF Len(ms) = 1 THEN ReprMessage(ms[1])
    ELSE ReprMessage(ms[1]) \o <<",", " ">> \o JoinMessages(Tail(ms))

(* str() of a list of messages *)
StrMessages(ms) == <<"[">> \o JoinMessages(ms) \o <<"]">>

-----------------------------------------------------------------------------
(* The summarizer client *)

(* query_huggingface, from the decoded reply on *)
query_huggingface(result) ==
    IF result.type = "dict" /\ HasKey(result, K_ERROR)
    THEN Str(FALLBACK)
    ELSE result

(* response[0]['summary_text'] if isinstance(response, list)
   else response.get('summary_text', str(response)) *)
SummaryOf(response) ==
    IF response.type = "list"
    THEN IF response.items = <<>> THEN Raise("IndexError")
         ELSE LET first == response.items[1]
              IN  IF first.type = "dict"
                  THEN IF HasKey(first, K_SUMMARY)
                       THEN Return(GetItem(first, K_SUMMARY))
                       ELSE Raise("KeyError")
                  ELSE Raise("TypeError")
    ELSE IF response.type = "dict"
         THEN IF HasKey(response, K_SUMMARY)
              THEN Return(GetItem(response, K_SUMMARY))
              ELSE Return(Str(StrOf(response)))
         ELSE Raise("AttributeError")

-----------------------------------------------------------------------------
(* Composition of the prompt *)

(* the prompt of search() before the summarizer call *)
ComposeSearch(q, res, messages) ==
    LET base == QUERY_PREFIX \o q \o RESEARCH_FINDINGS \o StrOf(res)
    IN  IF messages # <<>>
        THEN base \o PREVIOUS_CONTEXT \o StrMessages(LastTwo(messages))
        ELSE base

(* the prompt of extract() before the length cap *)
ComposeExtract(q, res, messages) ==
    LET base == QUERY_PREFIX \o q \o EXTRACTED_INFORMATION \o StrOf(res)
    IN  IF messages # <<>>
        THEN base \o PREVIOUS_CONTEXT \o StrMessages(LastTwo(messages))
        ELSE base

(* a cap that also cuts a text of exactly MAX_LENGTH characters *)
TruncateFromCap(t) ==
    IF Len(t) >= MAX_LENGTH THEN SubSeq(t, 1, MAX_LENGTH) \o ELLIPSIS ELSE t

(* no cap at all *)
TruncateNever(t) == t

(* if len(combined_info) > 1000: combined_info = combined_info[:1000] + "..." *)
Truncate(t) ==
    IF Len(t) > MAX_LENGTH THEN SubSeq(t, 1, MAX_LENGTH) \o ELLIPSIS ELSE t

RECURSIVE Bullets(_)
(* one "- <text>\n" line per element *)
Bullets(ts) ==
    IF ts = <<>> THEN <<>>
    ELSE <<"-", " ">> \o Head(ts) \o <<"\n">> \o Bullets(Tail(ts))

StrEach(vs) == [i \in 1..Len(vs) |-> StrOf(vs[i])]

Reverse(s) == [i \in 1..Len(s) |-> s[Len(s) + 1 - i]]

(* a draft prompt that lists the sources last to first *)
ComposeDraftSourcesReversed(rd, q) ==
    QUERY_PREFIX \o q \o RESEARCH_FINDINGS
        \o Bullets(StrEach(rd.search_results))
        \o Bullets(StrEach(rd.extracted_info))
        \o SOURCES_HEADER
        \o Bullets(Reverse(rd.sources))

(* the prompt of AnswerDraftingAgent.draft_answer *)
ComposeDraft(rd, q) ==
    QUERY_PREFIX \o q \o RESEARCH_FINDINGS
        \o Bullets(StrEach(rd.search_results))
        \o Bullets(StrEach(rd.extracted_info))
        \o SOURCES_HEADER
        \o Bullets(rd.sources)

-----------------------------------------------------------------------------
(* Inputs and replies of the external collaborators *)

(* a free text (repr escapes its backslash) and a URL *)
Inputs == {<<"a", "\\">>, U1}

ErrorResult == Dict(<<KV(K_ERROR, Str(T_RATE))>>)

(* a result long enough for the prompt of extract() to reach the cap *)
LongResult == Dict(<<KV(K_RESULTS, Str([i \in 1..(MAX_LENGTH \div 2 - 112) |-> "x"]))>>)

(* what a tool call can return: an error-shaped payload or a result *)
ToolResults == {ErrorResult, LongResult}

Replies ==
    { List(<<Dict(<<KV(K_SUMMARY, Str(<<"A">>))>>)>>),
      Dict(<<KV(K_SUMMARY, Str(<<"B">>))>>),
      Dict(<<KV(K_ERROR, Str(T_RATE)), KV(K_WARNINGS, List(<<Str(T_SLOW)>>))>>),
      Dict(<<KV(K_ERROR, Str(T_RATE)), KV(K_SUMMARY, Str(<<"C">>))>>),
      Dict(<<KV(K_UNEXPECTED, Lit(T_TRUE))>>),
      List(<<>>),
      List(<<Dict(<<KV(K_UNEXPECTED, Lit(T_TRUE))>>)>>),
      Str(<<"o", "k">>),
      None }

RECURSIVE SeqsUpTo(_, _)
(* the sequences over S of length at most n *)
SeqsUpTo(S, n) ==
    IF n = 0 THEN {<<>>}
    ELSE LET shorter == SeqsUpTo(S, n - 1)
         IN  shorter \cup {Append(s, x) : s \in shorter, x \in S}

UrlLists == SeqsUpTo({U1, U2}, MaxUrls)

(* urls: List[str] = None *)
UrlArgs == {[given |-> FALSE, list |-> <<>>]} \cup {[given |-> TRUE, list |-> l] : l \in UrlLists}

EmptyBundle == [search_results |-> <<>>, extracted_info |-> <<>>, sources |-> <<>>]

(* the research_data a caller hands draft_answer *)
Bundles ==
    { [search_results |-> <<LongResult>>,
       extracted_info |-> [i \in 1..Len(l) |-> ErrorResult],
       sources |-> l] : l \in UrlLists }

-----------------------------------------------------------------------------
(* The state machine *)

Init ==
    /\ pc = "idle"
    /\ mode = "none"
    /\ user_input = <<>>
    /\ search_results = NoValue
    /\ search_memory = <<>>
    /\ extract_memory = <<>>
    /\ combined_info = <<>>
    /\ hf_result = NoValue
    /\ answer = NoAnswer
    /\ inflight = {}
    /\ urls = [given |-> FALSE, list |-> <<>>]
    /\ research_data = EmptyBundle
    /\ calls = <<>>
    /\ turns = <<>>
    /\ runs = 0

(* the caller (main's loop) is between two operations *)
Ready == pc \in {"idle", "returned"}

(* the locals of a new operation *)
FreshLocals ==
    /\ search_results' = NoValue
    /\ combined_info' = <<>>
    /\ hf_result' = NoValue
    /\ answer' = NoAnswer

(* main, choice "1": search(query), up to search_tool.invoke(user_input) *)
CallSearch(q) ==
    /\ Ready
    /\ runs < MaxRuns
    /\ runs' = runs + 1
    /\ mode' = "search"
    /\ user_input' = q
    /\ pc' = "collect"
    /\ inflight' = {"search"}
    /\ FreshLocals
    /\ UNCHANGED <<search_memory, extract_memory, urls, research_data, calls, turns>>

(* main, choice "2": extract(query), up to extract_tool.invoke({"urls": [user_input]}) *)
CallExtract(q) ==
    /\ Ready
    /\ runs < MaxRuns
    /\ runs' = runs + 1
    /\ mode' = "extract"
    /\ user_input' = q
    /\ pc' = "collect"
    /\ inflight' = {"extract"}
    /\ FreshLocals
    /\ UNCHANGED <<search_memory, extract_memory, urls, research_data, calls, turns>>

(* main, choice "3" *)
Exit ==
    /\ Ready
    /\ pc' = "exited"
    /\ UNCHANGED <<mode, user_input, search_results, search_memory, extract_memory,
                   combined_info, hf_result, answer, inflight, urls, research_data,
                   calls, turns, runs>>

(* the tool call of search()/extract() returns its result *)
ToolReturn(r) ==
    /\ pc = "collect"
    /\ search_results' = r
    /\ turns' = Append(turns, [mode |-> mode, input |-> user_input, output |-> StrOf(r)])
    /\ pc' = "save"
    /\ inflight' = {}
    /\ UNCHANGED <<mode, user_input, search_memory, extract_memory, combined_info,
                   hf_result, answer, urls, research_data, calls, runs>>

(* the tool call raises: nothing in search()/extract()/main catches it *)
ToolRaise ==
    /\ pc = "collect"
    /\ answer' = Raise("ToolException")
    /\ pc' = "fault"
    /\ inflight' = {}
    /\ UNCHANGED <<mode, user_input, search_results, search_memory, extract_memory,
                   combined_info, hf_result, urls, research_data, calls, turns, runs>>

(* one log shared by both modes: every save lands in search_memory *)
SavedSearchMemoryShared ==
    save_context(search_memory, user_input, StrOf(search_results))

(* search_memory after the save step of the running operation *)
SavedSearchMemory ==
    IF mode = "search"
    THEN save_context(search_memory, user_input, StrOf(search_results))
    ELSE search_memory

(* extract_memory after the save step of the running operation *)
SavedExtractMemory ==
    IF mode = "extract"
    THEN save_context(extract_memory, user_input, StrOf(search_results))
    ELSE extract_memory

(* <mode>_memory.save_context({"input": user_input}, {"output": str(search_results)}) *)
SaveContext ==
    /\ pc = "save"
    /\ search_memory' = SavedSearchMemory
    /\ extract_memory' = SavedExtractMemory
    /\ pc' = "compose"
    /\ UNCHANGED <<mode, user_input, search_results, combined_info, hf_result,
                   answer, inflight, urls, research_data, calls, turns, runs>>

(* the prompt of extract() before the cap *)
Untruncated == ComposeExtract(user_input, search_results, extract_memory)

(* payload["inputs"] of the running search() or extract() *)
Prompt ==
    IF mode = "search"
    THEN ComposeSearch(user_input, search_results, search_memory)
    ELSE Truncate(Untruncated)

(* the prompt is composed and posted to the summarization endpoint *)
Compose ==
    /\ pc = "compose"
    /\ combined_info' = Prompt
    /\ pc' = "post"
    /\ inflight' = {"summarize"}
    /\ UNCHANGED <<mode, user_input, search_results, search_memory, extract_memory,
                   hf_result, answer, urls, research_data, calls, turns, runs>>

(* the endpoint's reply is decoded, normalised and returned (or the normalisation raises) *)
SummarizerReply(reply) ==
    /\ pc = "post"
    /\ hf_result' = reply
    /\ answer' = SummaryOf(query_huggingface(reply))
    /\ pc' = IF answer'.kind = "return" THEN "returned" ELSE "fault"
    /\ inflight' = {}
    /\ UNCHANGED <<mode, user_input, search_results, search_memory, extract_memory,
                   combined_info, urls, research_data, calls, turns, runs>>

(* requests.post or response.json() raises *)
SummarizerRaise ==
    /\ pc = "post"
    /\ answer' = Raise("RequestException")
    /\ pc' = "fault"
    /\ inflight' = {}
    /\ UNCHANGED <<mode, user_input, search_results, search_memory, extract_memory,
                   combined_info, hf_result, urls, research_data, calls, turns, runs>>

(* AnswerDraftingAgent.draft_answer(research_data, query), up to the summarizer call *)
CallDraftAnswer(rd, q) ==
    /\ Ready
    /\ runs < MaxRuns
    /\ runs' = runs + 1
    /\ mode' = "draft"
    /\ user_input' = q
    /\ research_data' = rd
    /\ search_results' = NoValue
    /\ hf_result' = NoValue
    /\ answer' = NoAnswer
    /\ combined_info' = ComposeDraft(rd, q)
    /\ pc' = "post"
    /\ inflight' = {"summarize"}
    /\ UNCHANGED <<search_memory, extract_memory, urls, calls, turns>>

(* the whole url list handed to every extraction call *)
ExtractArgWholeList(k) == urls.list

(* the {"urls": [url]} argument of the extraction call for the k-th URL *)
ExtractArg(k) == <<urls.list[k]>>

(* if urls: *)
Truthy(u) == u.given /\ u.list # <<>>

Call(tool, arg) == [tool |-> tool, arg |-> arg, ret |-> NoValue]

(* the call in flight has returned r *)
Returned(r) == [calls EXCEPT ![Len(calls)].ret = r]

(* ResearchAgent.gather_information(query, urls), up to search_tool.invoke(query) *)
CallGather(q, us) ==
    /\ Ready
    /\ runs < MaxRuns
    /\ runs' = runs + 1
    /\ mode' = "gather"
    /\ user_input' = q
    /\ urls' = us
    /\ research_data' = EmptyBundle
    /\ calls' = <<Call("search", <<q>>)>>
    /\ pc' = "g_search"
    /\ inflight' = {"search"}
    /\ FreshLocals
    /\ UNCHANGED <<search_memory, extract_memory, turns>>

(* the search call returns; the loop over urls starts, or gather returns *)
GatherSearchReturn(r) ==
    /\ pc = "g_search"
    /\ research_data' = [research_data EXCEPT !.search_results = Append(@, r)]
    /\ IF Truthy(urls)
       THEN /\ calls' = Append(Returned(r), Call("extract", ExtractArg(1)))
            /\ pc' = "g_extract"
            /\ inflight' = {"extract"}
       ELSE /\ calls' = Returned(r)
            /\ pc' = "returned"
            /\ inflight' = {}
    /\ UNCHANGED <<mode, user_input, search_results, search_memory, extract_memory,
                   combined_info, hf_result, answer, urls, turns, runs>>

(* the search call raises: gather_information has no handler *)
GatherSearchRaise ==
    /\ pc = "g_search"
    /\ answer' = Raise("ToolException")
    /\ pc' = "fault"
    /\ inflight' = {}
    /\ UNCHANGED <<mode, user_input, search_results, search_memory, extract_memory,
                   combined_info, hf_result, urls, research_data, calls, turns, runs>>

(* the extraction call of one URL returns; the loop goes on to the next URL, or gather returns *)
GatherExtractReturn(r) ==
    /\ pc = "g_extract"
    /\ LET k == Len(research_data.sources) + 1
       IN  /\ research_data' = [research_data EXCEPT
                                   !.extracted_info = Append(@, r),
                                   !.sources = Append(@, urls.list[k])]
           /\ IF k < Len(urls.list)
              THEN /\ calls' = Append(Returned(r), Call("extract", ExtractArg(k + 1)))
                   /\ pc' = "g_extract"
                   /\ inflight' = {"extract"}
              ELSE /\ calls' = Returned(r)
                   /\ pc' = "returned"
                   /\ inflight' = {}
    /\ UNCHANGED <<mode, user_input, search_results, search_memory, extract_memory,
                   combined_info, hf_result, answer, urls, turns, runs>>

(* the extraction call of one URL raises: the loop has no handler, gather ends with the fault *)
GatherExtractRaise ==
    /\ pc = "g_extract"
    /\ answer' = Raise("ToolException")
    /\ pc' = "fault"
    /\ inflight' = {}
    /\ UNCHANGED <<mode, user_input, search_results, search_memory, extract_memory,
                   combined_info, hf_result, urls, research_data, calls, turns, runs>>

Next ==
    \/ \E q \in Inputs : CallSearch(q)
    \/ \E q \in Inputs : CallExtract(q)
    \/ Exit
    \/ \E r \in ToolResults : ToolReturn(r)
    \/ ToolRaise
    \/ SaveContext
    \/ Compose
    \/ \E reply \in Replies : SummarizerReply(reply)
    \/ SummarizerRaise
    \/ \E rd \in Bundles, q \in Inputs : CallDraftAnswer(rd, q)

Spec == Init /\ [][Next]_vars

(* the operations of ResearchAgent *)
NextAgents ==
    \/ \E q \in Inputs, us \in UrlArgs : CallGather(q, us)
    \/ \E r \in ToolResults : GatherSearchReturn(r)
    \/ GatherSearchRaise
    \/ \E r \in ToolResults : GatherExtractReturn(r)
    \/ GatherExtractRaise

SpecAgents == Init /\ [][NextAgents]_vars

-----------------------------------------------------------------------------
(* Properties *)

RunModes == {"search", "extract"}

(* the memory of the running operation's mode *)
ModeMemory == IF mode = "search" THEN search_memory ELSE extract_memory

IsPrefix(a, b) == Len(a) <= Len(b) /\ SubSeq(b, 1, Len(a)) = a

(* text s holds lit from position i on *)
IsAt(s, lit, i) ==
    /\ i >= 1
    /\ i + Len(lit) - 1 <= Len(s)
    /\ s[i] = lit[1]
    /\ SubSeq(s, i, i + Len(lit) - 1) = lit

(* the last n turns of a message log, a turn being a human and an ai message *)
LastTurns(messages, n) ==
    IF Len(messages) <= 2 * n THEN messages
    ELSE SubSeq(messages, Len(messages) - 2 * n + 1, Len(messages))

(* the turns of one mode in the history, and the messages they make *)
TurnsOfMode(m) == SelectSeq(turns, LAMBDA t : t.mode = m)

RECURSIVE MessagesOfTurns(_)
MessagesOfTurns(ts) ==
    IF ts = <<>> THEN <<>>
    ELSE <<HumanMessage(Head(ts).input), AIMessage(Head(ts).output)>> \o MessagesOfTurns(Tail(ts))

(* the run has its raw result but has not saved it yet *)
SavedTurns(m) ==
    IF pc = "save" /\ mode = m
    THEN SubSeq(TurnsOfMode(m), 1, Len(TurnsOfMode(m)) - 1)
    ELSE TurnsOfMode(m)

(* the run of search() or extract() has received the summarizer's reply *)
Replied == mode \in RunModes /\ hf_result # NoValue

(* the summarizer's normalization policy, first matching rule winning *)
Policy(reply) ==
    IF reply.type = "list" THEN GetItem(reply.items[1], K_SUMMARY)
    ELSE IF reply.type = "dict" /\ HasKey(reply, K_SUMMARY) THEN GetItem(reply, K_SUMMARY)
    ELSE IF reply.type = "dict" /\ HasKey(reply, K_ERROR) THEN Str(FALLBACK)
    ELSE Str(StrOf(reply))

(* rule (1) names element 0's summary_text: the list has such an element *)
PolicyApplies(reply) ==
    reply.type = "list" =>
        /\ reply.items # <<>>
        /\ reply.items[1].type = "dict"
        /\ HasKey(reply.items[1], K_SUMMARY)

(* C1: the answer of runSearch/runExtract is the result of the ordered
   normalization policy on the decoded reply: a sequence gives element 0's
   summary_text, else a mapping with summary_text gives that value (also with
   an error key beside it), else a mapping with error gives the fixed fallback
   text, else the reply's textual rendering. *)
C1_AnswerIsPolicy ==
    (Replied /\ PolicyApplies(hf_result)) => answer = Return(Policy(hf_result))

(* C2: every run of runSearch/runExtract that received a reply from the
   summarization endpoint, whatever its shape, ends by returning a text value:
   no fault is raised out of the pipeline. *)
C2_AlwaysReturnsText ==
    Replied => (pc = "returned" /\ answer.kind = "return" /\ answer.val.type = "str")

(* C3: in extract mode, when the untruncated composed text is longer than
   max_length the prompt sent has length exactly max_length + 3 and is the
   first max_length characters of the untruncated text followed by "...";
   when it is not longer, it is sent unchanged. *)
C3_TruncationExact ==
    (pc = "post" /\ mode = "extract") =>
        IF Len(Untruncated) > MAX_LENGTH
        THEN /\ Len(combined_info) = MAX_LENGTH + 3
             /\ SubSeq(combined_info, 1, MAX_LENGTH) = SubSeq(Untruncated, 1, MAX_LENGTH)
             /\ SubSeq(combined_info, MAX_LENGTH + 1, MAX_LENGTH + 3) = <<".", ".", ".">>
        ELSE combined_info = Untruncated

(* an extract run whose composed text exceeded the cap has posted its prompt *)
C3_Witness ==
    /\ pc = "post"
    /\ mode = "extract"
    /\ Len(Untruncated) > MAX_LENGTH
    /\ combined_info # Untruncated

(* C4 as stated: the composed context sent by runExtract has length at most
   1000 characters. *)
C4_AtMostMaxLength ==
    (pc = "post" /\ mode = "extract") => Len(combined_info) <= MAX_LENGTH

(* C4 as amended: the composed context sent by runExtract has length at most
   1003 characters (the 1000-character cap plus the "..." marker), after any
   earlier runs; in search mode the whole composition is sent, whatever its
   length. *)
C4_AtMostMaxLengthPlusMarker ==
    /\ (pc = "post" /\ mode = "extract") => Len(combined_info) <= MAX_LENGTH + Len(ELLIPSIS)
    /\ (pc = "post" /\ mode = "search") =>
            /\ Len(combined_info) =
                   Len(QUERY_PREFIX) + Len(user_input) + Len(RESEARCH_FINDINGS)
                   + Len(StrOf(search_results)) + Len(PREVIOUS_CONTEXT)
                   + Len(StrMessages(LastTwo(search_memory)))
            /\ combined_info[Len(combined_info)] = "]"

(* an extract run after an earlier extract run sends more than the cap *)
C4_Witness ==
    /\ pc = "post"
    /\ mode = "extract"
    /\ Len(extract_memory) > 2
    /\ Len(combined_info) > MAX_LENGTH

(* the prompt of the running operation with the last n turns as its Previous Context *)
PromptWithLastTurns(n) ==
    LET hdr  == IF mode = "search" THEN RESEARCH_FINDINGS ELSE EXTRACTED_INFORMATION
        text == QUERY_PREFIX \o user_input \o hdr \o StrOf(search_results)
                    \o PREVIOUS_CONTEXT \o StrMessages(LastTurns(ModeMemory, n))
    IN  IF mode = "extract" /\ Len(text) > MAX_LENGTH
        THEN SubSeq(text, 1, MAX_LENGTH) \o ELLIPSIS
        ELSE text

(* C5: the Previous Context section composed by a run of mode M holds exactly
   the last min(2, history length) turns of mode M's memory, in insertion
   order: once two turns are saved in the mode, the two most recent are both
   present. *)
C5_LastTwoTurns ==
    (pc = "post" /\ mode \in RunModes) => combined_info = PromptWithLastTurns(2)

(* C6, the state part: each mode's memory is exactly the turns of that mode's
   runs so far, in call order, and the prompt of a run is composed from its
   own mode's memory. *)
C6_MemoryIsOwnTurns ==
    /\ search_memory = MessagesOfTurns(SavedTurns("search"))
    /\ extract_memory = MessagesOfTurns(SavedTurns("extract"))
    /\ (pc = "post" /\ mode = "search") =>
            IsAt(combined_info, PREVIOUS_CONTEXT \o StrMessages(LastTwo(search_memory)),
                 Len(combined_info) + 1
                    - Len(PREVIOUS_CONTEXT \o StrMessages(LastTwo(search_memory))))
    /\ (pc = "post" /\ mode = "extract" /\ Len(combined_info) <= MAX_LENGTH) =>
            IsAt(combined_info, PREVIOUS_CONTEXT \o StrMessages(LastTwo(extract_memory)),
                 Len(combined_info) + 1
                    - Len(PREVIOUS_CONTEXT \o StrMessages(LastTwo(extract_memory))))

(* C6, the step part: a step of one mode leaves the other mode's memory
   unchanged, and turns already appended are never modified or removed. *)
C6_MemoryStep ==
    /\ IsPrefix(search_memory, search_memory')
    /\ IsPrefix(extract_memory, extract_memory')
    /\ mode' # "search" => search_memory' = search_memory
    /\ mode' # "extract" => extract_memory' = extract_memory

(* C6: mode isolation. After any interleaving of runSearch and runExtract the
   search-mode memory is exactly the sequence of (input, raw result) turns of
   the runSearch calls so far, in call order, and the extract-mode memory that
   of the runExtract calls; a run of one mode leaves the other mode's memory
   unchanged and composes its prompt from its own memory only; appended turns
   are never modified or removed. *)
C6_ModeIsolation == [](C6_MemoryIsOwnTurns) /\ [][C6_MemoryStep]_vars

(* a run composes its prompt while both modes hold different turns *)
C6_Witness ==
    /\ pc = "post"
    /\ mode \in RunModes
    /\ search_memory # <<>>
    /\ extract_memory # <<>>
    /\ LastTwo(search_memory) # LastTwo(extract_memory)

(* the extraction calls issued so far *)
ExtractCalls == SelectSeq(calls, LAMBDA c : c.tool = "extract")

(* C7: in gather(query, urls) the URLs are processed independently: when the
   extraction call for one URL fails, gather still issues the extraction call
   for every other URL and returns a bundle; the failure is not raised out of
   gather. *)
C7_UrlsIndependent ==
    (mode = "gather" /\ inflight = {} /\ ExtractCalls # <<>>) =>
        /\ pc = "returned"
        /\ Len(ExtractCalls) = Len(urls.list)

(* where the findings of the posted prompt start and what heads them *)
FindingsHeader == IF mode = "extract" THEN EXTRACTED_INFORMATION ELSE RESEARCH_FINDINGS

FindingsStart == Len(QUERY_PREFIX) + Len(user_input) + 1

(* the source URLs of the running operation *)
RunSources ==
    IF mode = "draft" THEN research_data.sources
    ELSE IF mode = "extract" THEN <<user_input>>
    ELSE <<>>

(* a prompt has been posted and nothing was cut from it *)
PostedUncut ==
    /\ pc = "post"
    /\ mode \in RunModes \cup {"draft"}
    /\ mode = "extract" => Len(Untruncated) <= MAX_LENGTH

(* C8 as stated: when no truncation occurs, the prompt of every composing
   operation (runSearch, runExtract, draft_answer) holds the query verbatim
   and a Sources section listing every source URL of the run in the order
   supplied, the sections in the order Header, Findings, Sources, Previous
   Context. *)
C8_SourcesInEveryPrompt ==
    PostedUncut =>
        /\ IsAt(combined_info, QUERY_PREFIX \o user_input, 1)
        /\ IsAt(combined_info, FindingsHeader, FindingsStart)
        /\ \E i \in FindingsStart + Len(FindingsHeader)..Len(combined_info) :
              /\ IsAt(combined_info, SOURCES_HEADER \o Bullets(RunSources), i)
              /\ \A j \in 1..i : ~IsAt(combined_info, PREVIOUS_CONTEXT, j)

(* where the findings of the posted prompt end *)
FindingsEnd ==
    FindingsStart + Len(FindingsHeader) - 1
        + (IF mode = "draft"
           THEN Len(Bullets(StrEach(research_data.search_results)))
                    + Len(Bullets(StrEach(research_data.extracted_info)))
           ELSE Len(StrOf(search_results)))

(* C8 as amended: when no truncation occurs, every composed prompt starts with
   the header holding the query verbatim, followed by the Findings section.
   The prompt of draft_answer goes on with a Sources section listing every
   source URL in the order supplied and ends there, without a Previous Context
   section. The prompts of runSearch and runExtract have no Sources section:
   their Previous Context section directly follows the Findings. *)
C8_Layout ==
    PostedUncut =>
        /\ IsAt(combined_info, QUERY_PREFIX \o user_input, 1)
        /\ IsAt(combined_info, FindingsHeader, FindingsStart)
        /\ mode = "draft" =>
              /\ IsAt(combined_info, SOURCES_HEADER \o Bullets(research_data.sources),
                      FindingsEnd + 1)
              /\ Len(combined_info) =
                    FindingsEnd + Len(SOURCES_HEADER) + Len(Bullets(research_data.sources))
        /\ mode \in RunModes =>
              /\ IsAt(combined_info, PREVIOUS_CONTEXT, FindingsEnd + 1)
              /\ ~IsAt(combined_info, SOURCES_HEADER, FindingsEnd + 1)

(* draft_answer has posted a prompt for two different sources *)
C8_Witness ==
    /\ pc = "post"
    /\ mode = "draft"
    /\ Len(research_data.sources) = 2
    /\ research_data.sources[1] # research_data.sources[2]

(* the calls gather(query, urls) is to issue, in order *)
ExpectedCalls ==
    <<[tool |-> "search", arg |-> <<user_input>>]>>
        \o (IF urls.given
            THEN [i \in 1..Len(urls.list) |-> [tool |-> "extract", arg |-> <<urls.list[i]>>]]
            ELSE <<>>)

IssuedCalls == [i \in 1..Len(calls) |-> [tool |-> calls[i].tool, arg |-> calls[i].arg]]

(* C9: gather(query, urls) issues exactly one search call with the query and,
   for each URL in list order, exactly one extraction call carrying that one
   URL; on return search_results has exactly one element, extracted_info one
   element per URL in URL order and sources equals urls; with urls absent or
   empty no extraction call is issued and both are empty.  At every moment
   the calls issued are a prefix of that sequence, and on return they are the
   whole of it, each with its result in the bundle. *)
C9_GatherCalls ==
    mode = "gather" =>
        /\ IsPrefix(IssuedCalls, ExpectedCalls)
        /\ pc = "returned" =>
              /\ IssuedCalls = ExpectedCalls
              /\ research_data.search_results = <<calls[1].ret>>
              /\ research_data.extracted_info =
                    [i \in 1..Len(urls.list) |-> calls[i + 1].ret]
              /\ research_data.sources = urls.list
              /\ \A i \in 1..Len(calls) : calls[i].ret # NoValue

(* gather has returned a bundle for two different URLs with different results *)
C9_Witness ==
    /\ mode = "gather"
    /\ pc = "returned"
    /\ Len(urls.list) = 2
    /\ urls.list[1] # urls.list[2]
    /\ research_data.extracted_info[1] # research_data.extracted_info[2]

(* the turn of the running operation *)
RunTurn == <<HumanMessage(user_input), AIMessage(StrOf(search_results))>>

(* C10, the step part: the steps of a run follow each other in the order
   collect, save, compose, summarizer call, end, and the mode's memory changes
   in the save step only, by the run's one turn. *)
C10_Step ==
    /\ pc' = "collect" => pc \in {"idle", "returned"}
    /\ pc = "collect" => pc' \in {"save", "fault"}
    /\ pc = "save" => pc' = "compose"
    /\ pc = "compose" => pc' = "post"
    /\ pc = "post" => pc' \in {"returned", "fault"}
    /\ pc' = "save" => pc = "collect"
    /\ pc' = "compose" => pc = "save"
    /\ (pc' = "post" /\ mode' \in RunModes) => pc = "compose"
    /\ pc = "save" => ModeMemory' = ModeMemory \o RunTurn
    /\ pc # "save" => (search_memory' = search_memory /\ extract_memory' = extract_memory)

(* C10, the state part: at most one external call is in flight, the memory is
   not empty at compose time, and a run whose collection returned ends with
   its turn saved as the last of as many turns as such runs were made. *)
C10_State ==
    /\ Cardinality(inflight) <= 1
    /\ inflight # {} <=> pc \in {"collect", "post"}
    /\ (mode \in RunModes /\ pc \in {"compose", "post"}) => ModeMemory # <<>>
    /\ (mode \in RunModes /\ pc \in {"returned", "fault"} /\ search_results # NoValue) =>
            /\ LastTwo(ModeMemory) = RunTurn
            /\ Len(ModeMemory) = 2 * Len(TurnsOfMode(mode))

(* C10: each run of runSearch/runExtract executes its steps once each in the
   order collect, save turn, compose, summarizer call, return, with no two
   external calls in flight together; the mode's memory has grown by exactly
   one turn at the end of every run whose collection step returned, also when
   the summarizer replies with an error or the run ends in a fault, and the
   memory is never empty at compose time. *)
C10_PipelineOrder == [](C10_State) /\ [][C10_Step]_vars

(* a second run of a mode ended in a fault after the summarizer replied *)
C10_Witness ==
    /\ pc = "fault"
    /\ mode \in RunModes
    /\ hf_result # NoValue
    /\ Len(ModeMemory) = 4
=============================================================================
